---- MODULE Spec2Model ----
(***************************************************************************)
(* Model of the MemoryTrack Vulkan layer (src/memory_track.cpp).            *)
(*                                                                         *)
(* The layer keeps four process-wide maps (instance_dispatch,              *)
(* device_dispatch, devices, allocations) guarded by one mutex             *)
(* (global_lock).  Every handler is modelled as one action that performs   *)
(* the whole body of the handler, the call it forwards to the next link of *)
(* the chain included.  The next link (loader / driver) is the environment:*)
(* it hands out handles and result codes.                                  *)
(*                                                                         *)
(* Spec: the application calls the entry points one at a time, in any      *)
(* order.  SpecThreads: two threads allocate and free on one device, a     *)
(* handler being the acquisition of the lock and its body.  SpecSteps: two *)
(* threads run every handler, cut where the code takes and drops the lock. *)
(*                                                                         *)
(* Handles are integers.  Function pointers held in a dispatch table are   *)
(* modelled by the handle they were resolved for (0 is the null pointer of *)
(* a value-initialised table).                                             *)
(***************************************************************************)
EXTENDS Integers, Sequences, FiniteSets, TLC

VARIABLES
  instance_dispatch,  \* std::map<void*, VkLayerInstanceDispatchTable>   (line 32)
  device_dispatch,    \* std::map<void*, VkLayerDispatchTable>           (line 33)
  devices,            \* std::map<VkDevice, DeviceStats>                 (line 56)
  allocations,        \* std::map<VkDeviceMemory, VkMemoryAllocateInfo>  (line 60)
  global_lock,        \* std::mutex: 0 when free, else the holding thread (line 21)
  output,             \* what DestroyDevice has printed, one record per report
  crashed,            \* the process has faulted (null call / wild access)
  nextInstances,      \* next link: instances it has created
  nextDevices,        \* next link: device -> physical device it was created on
  nextMemory,         \* next link: live memory handle -> request that made it
  liveInstances,      \* instances created through the layer and not destroyed
  liveDevices,        \* devices created through the layer and not destroyed
  misuse,             \* some call so far broke the API contract
  last,               \* the last call: operation, arguments, result, forwards
  pc,                 \* two-thread runs: position of each thread in its program
  held,               \* two-thread runs: handles each thread got back
  run                 \* stepwise runs: where each thread is inside its handler

vars == <<instance_dispatch, device_dispatch, devices, allocations, global_lock,
          output, crashed, nextInstances, nextDevices, nextMemory,
          liveInstances, liveDevices, misuse, last, pc, held, run>>

layerVars == <<instance_dispatch, device_dispatch, devices, allocations>>

threadVars == <<pc, held, run>>

-----------------------------------------------------------------------------
(* Bounds of the model.                                                    *)

MaxInstances == 1
MaxDevices == 2
MaxMemory == 2
MaxSize == 1
MaxReports == 1

(* Program constants.                                                      *)

VK_NULL_HANDLE == 0
VK_MEMORY_HEAP_DEVICE_LOCAL_BIT == 1
UsageBits == 64

-----------------------------------------------------------------------------
(* Handles of the next link.  An instance and its physical device share    *)
(* the loader word GetKey reads; every device has a word of its own.       *)

Instances == 1 .. MaxInstances
PhysicalDevices == {10 + i : i \in Instances}
Devices == {20 + j : j \in 1 .. MaxDevices}
MemoryHandles == 1 .. MaxMemory
Sizes == 1 .. MaxSize

InstanceOf(physicalDevice) == physicalDevice - 10

\* *(void **)inst: the first word of a dispatchable handle.
\* a key that does not tell the devices apart
GetKey_SharedDeviceKey(inst) ==
  IF inst \in Instances THEN 100 + inst
  ELSE IF inst \in PhysicalDevices THEN 100 + InstanceOf(inst)
  ELSE 200

GetKey(inst) ==
  IF inst \in Instances THEN 100 + inst
  ELSE IF inst \in PhysicalDevices THEN 100 + InstanceOf(inst)
  ELSE 200 + inst

(* The memory topology the next link reports for a physical device:        *)
(* heapIndex of every type (0-based, as in Vulkan) and flags of every heap.*)
(* Physical device 11 is the one of the scenario of the specification.     *)

TopologyTypes(physicalDevice) ==
  IF physicalDevice = 11 THEN <<0, 1>> ELSE <<0, 0, 1>>

TopologyHeaps(physicalDevice) ==
  <<VK_MEMORY_HEAP_DEVICE_LOCAL_BIT, 0>>

-----------------------------------------------------------------------------
(* std::map helpers.                                                       *)

\* m[k] of std::map: a missing key is inserted with a value-initialised value.
MapIndex(m, k, dflt) == IF k \in DOMAIN m THEN m ELSE m @@ (k :> dflt)

\* m[k] = v
MapAssign(m, k, v) == [x \in DOMAIN m \cup {k} |-> IF x = k THEN v ELSE m[x]]

\* m.erase(k)
MapErase(m, k) == [x \in DOMAIN m \ {k} |-> m[x]]

EmptyMap == [x \in {} |-> 0]

-----------------------------------------------------------------------------
(* Dispatch tables.  A value-initialised table holds null pointers.        *)

NullInstanceTable ==
  [GetInstanceProcAddr |-> VK_NULL_HANDLE, DestroyInstance |-> VK_NULL_HANDLE,
   EnumerateDeviceExtensionProperties |-> VK_NULL_HANDLE]

NullDeviceTable ==
  [GetDeviceProcAddr |-> VK_NULL_HANDLE, DestroyDevice |-> VK_NULL_HANDLE,
   AllocateMemory |-> VK_NULL_HANDLE, FreeMemory |-> VK_NULL_HANDLE]

\* lines 96-99: the three entry points gpa resolves for the new instance
InstanceTable(instance) ==
  [GetInstanceProcAddr |-> instance, DestroyInstance |-> instance,
   EnumerateDeviceExtensionProperties |-> instance]

\* lines 151-155: the four entry points gdpa resolves for the new device
DeviceTable(device) ==
  [GetDeviceProcAddr |-> device, DestroyDevice |-> device,
   AllocateMemory |-> device, FreeMemory |-> device]

-----------------------------------------------------------------------------
(* Accounting data (lines 36-60).                                          *)

\* struct DeviceStats with two empty vectors: what devices[device] inserts
EmptyStats == [memoryTypes |-> <<>>, memoryHeaps |-> <<>>]

\* a value-initialised VkMemoryAllocateInfo: what allocations[memory] inserts
NullAllocateInfo == [allocationSize |-> 0, memoryTypeIndex |-> 0]

\* uint64_t arithmetic
Wrap(x) == x % (2 ^ UsageBits)

\* v[i] of std::vector is inside the vector
InBounds(v, i) == i >= 0 /\ i < Len(v)

TypeInBounds(stats, typeIndex) == InBounds(stats.memoryTypes, typeIndex)

HeapInBounds(stats, typeIndex) ==
  /\ TypeInBounds(stats, typeIndex)
  /\ InBounds(stats.memoryHeaps, stats.memoryTypes[typeIndex + 1].heapIndex)

\* lines 225, 227-228 on memoryTypes[typeIndex]
AddUsage(info, size) ==
  LET cur == Wrap(info.currentUsage + size)
  IN  [info EXCEPT !.currentUsage = cur,
                   !.maximumUsage = IF cur > @ THEN cur ELSE @]

\* lines 244-245
SubUsage(info, size) ==
  [info EXCEPT !.currentUsage = Wrap(@ - size)]

\* lines 222-230: the counters after a successful allocation.  The elements
\* that are inside their vectors are updated; an access outside is a wild
\* access, whose effect on the process the action chooses.
AccountAllocate(stats, allocInfo) ==
  LET t == allocInfo.memoryTypeIndex + 1
      size == allocInfo.allocationSize
      types == IF TypeInBounds(stats, allocInfo.memoryTypeIndex)
               THEN [stats.memoryTypes EXCEPT ![t] = AddUsage(@, size)]
               ELSE stats.memoryTypes
      heaps == IF HeapInBounds(stats, allocInfo.memoryTypeIndex)
               THEN [stats.memoryHeaps EXCEPT
                       ![stats.memoryTypes[t].heapIndex + 1] = AddUsage(@, size)]
               ELSE stats.memoryHeaps
  IN  [memoryTypes |-> types, memoryHeaps |-> heaps]

\* lines 242-245: the counters after a free
AccountFree(stats, allocInfo) ==
  LET t == allocInfo.memoryTypeIndex + 1
      size == allocInfo.allocationSize
      types == IF TypeInBounds(stats, allocInfo.memoryTypeIndex)
               THEN [stats.memoryTypes EXCEPT ![t] = SubUsage(@, size)]
               ELSE stats.memoryTypes
      heaps == IF HeapInBounds(stats, allocInfo.memoryTypeIndex)
               THEN [stats.memoryHeaps EXCEPT
                       ![stats.memoryTypes[t].heapIndex + 1] = SubUsage(@, size)]
               ELSE stats.memoryHeaps
  IN  [memoryTypes |-> types, memoryHeaps |-> heaps]

(* What an access outside a vector does.  The vectors of a DeviceStats     *)
(* made by devices[device] are empty, so memoryTypes[i] is the address     *)
(* i * sizeof(MemoryTypeInfo) off a null data pointer: the access traps    *)
(* ("fault"), or it lands in memory that is none of the layer's maps       *)
(* ("stray") and the handler runs on.                                      *)
WildOutcomes == {"fault", "stray"}

-----------------------------------------------------------------------------
(* The pNext chain of a creation info (lines 70-77, 124-131).              *)

LinkRecord(sType, links) ==
  [sType |-> sType, function |-> "VK_LAYER_LINK_INFO", layerInfo |-> links]

OtherRecord(sType) ==
  [sType |-> sType, function |-> "VK_LOADER_DATA_CALLBACK", layerInfo |-> 0]

InstanceSType == "VK_STRUCTURE_TYPE_LOADER_INSTANCE_CREATE_INFO"
DeviceSType == "VK_STRUCTURE_TYPE_LOADER_DEVICE_CREATE_INFO"

\* the while loop: index of the first record with this sType and the link
\* function, 0 when the walk ends on NULL
RECURSIVE FindLinkFrom(_, _, _)
FindLinkFrom(chain, sType, i) ==
  IF i > Len(chain) THEN 0
  ELSE IF chain[i].sType # sType \/ chain[i].function # "VK_LAYER_LINK_INFO"
       THEN FindLinkFrom(chain, sType, i + 1)
       ELSE i

FindLink(chain, sType) == FindLinkFrom(chain, sType, 1)

\* lines 85 / 139-140: the resolver the link under u.pLayerInfo holds; the
\* links of the list are told apart by how many of them are left
NextResolver(chain, i) == chain[i].layerInfo

\* a create call that leaves u.pLayerInfo where it was
AdvanceLink_Stays(chain, i) == chain

\* line 87 / 142: u.pLayerInfo = u.pLayerInfo->pNext
AdvanceLink(chain, i) == [chain EXCEPT ![i].layerInfo = @ - 1]

\* creation chains the loader or a caller may pass
Chains(sType) ==
  { <<>>,
    << OtherRecord("VK_STRUCTURE_TYPE_APPLICATION_INFO") >>,
    << OtherRecord(sType) >>,
    << LinkRecord(sType, 1) >>,
    << OtherRecord(sType), LinkRecord(sType, 2) >> }

-----------------------------------------------------------------------------
(* Result codes.                                                           *)

VK_SUCCESS == "VK_SUCCESS"
VK_ERROR_INITIALIZATION_FAILED == "VK_ERROR_INITIALIZATION_FAILED"
FailureCodes == {"VK_ERROR_OUT_OF_HOST_MEMORY", "VK_ERROR_OUT_OF_DEVICE_MEMORY"}
Results == {VK_SUCCESS} \cup FailureCodes

\* one call the layer made into the next link: the entry point, the pointer
\* it was called through (the owner of the table it came from, or the link
\* whose resolver gave it), the handle it was made on or returned, its result
Forward(fn, via, handle, result) ==
  [fn |-> fn, via |-> via, handle |-> handle, result |-> result]

\* the record of a call
Call(op, handle, memory, info, name, result, fault, forwarded, chain) ==
  [op |-> op, handle |-> handle, memory |-> memory, info |-> info,
   name |-> name, result |-> result, fault |-> fault,
   forwarded |-> forwarded, chain |-> chain]

NoCall == Call("none", 0, 0, NullAllocateInfo, "", "", FALSE, <<>>, <<>>)

-----------------------------------------------------------------------------
(* Initial state: the maps are empty, nothing has been created.            *)

Threads == {1, 2}

\* a thread that is in none of the layer's handlers; inside one, `at` is the
\* place it has reached and ret / handle are the handler's local variables;
\* device is the device the thread has created for itself
Outside == [at |-> "outside", op |-> "none", ret |-> "", handle |-> 0, device |-> 0]

Init ==
  /\ instance_dispatch = EmptyMap
  /\ device_dispatch = EmptyMap
  /\ devices = EmptyMap
  /\ allocations = EmptyMap
  /\ global_lock = 0
  /\ output = <<>>
  /\ crashed = FALSE
  /\ nextInstances = {}
  /\ nextDevices = EmptyMap
  /\ nextMemory = EmptyMap
  /\ liveInstances = {}
  /\ liveDevices = {}
  /\ misuse = FALSE
  /\ last = NoCall
  /\ pc = [t \in Threads |-> 0]
  /\ held = [t \in Threads |-> <<>>]
  /\ run = [t \in Threads |-> Outside]

-----------------------------------------------------------------------------
(* MemoryTrack_CreateInstance, lines 65-110.                               *)

CreateInstanceBody(chain, ret, instance) ==
  LET i == FindLink(chain, InstanceSType) IN
  IF i = 0
  THEN \* line 79-83: no loader instance create info
       /\ last' = Call("CreateInstance", VK_NULL_HANDLE, 0, NullAllocateInfo, "",
                       VK_ERROR_INITIALIZATION_FAILED, FALSE, <<>>, chain)
       /\ UNCHANGED <<instance_dispatch, nextInstances, liveInstances>>
  ELSE LET advanced == AdvanceLink(chain, i)
           fwd == Forward("vkCreateInstance", NextResolver(chain, i),
                          IF ret = VK_SUCCESS THEN instance ELSE VK_NULL_HANDLE, ret)
       IN
       IF ret = VK_SUCCESS
       THEN \* lines 92-107: build the table and store it by key
            /\ instance_dispatch' = MapAssign(instance_dispatch, GetKey(instance),
                                              InstanceTable(instance))
            /\ nextInstances' = nextInstances \cup {instance}
            /\ liveInstances' = liveInstances \cup {instance}
            /\ last' = Call("CreateInstance", instance, 0, NullAllocateInfo, "",
                            ret, FALSE, <<fwd>>, advanced)
       ELSE /\ last' = Call("CreateInstance", VK_NULL_HANDLE, 0, NullAllocateInfo, "",
                            ret, FALSE, <<fwd>>, advanced)
            /\ UNCHANGED <<instance_dispatch, nextInstances, liveInstances>>

CreateInstance ==
  /\ ~crashed /\ global_lock = 0
  /\ \E chain \in Chains(InstanceSType) :
       IF FindLink(chain, InstanceSType) = 0
       THEN CreateInstanceBody(chain, VK_SUCCESS, VK_NULL_HANDLE)
       ELSE \E ret \in Results :
              IF ret = VK_SUCCESS
              THEN \E instance \in Instances \ nextInstances :
                     CreateInstanceBody(chain, ret, instance)
              ELSE CreateInstanceBody(chain, ret, VK_NULL_HANDLE)
  /\ UNCHANGED <<device_dispatch, devices, allocations, global_lock, output, crashed,
                 nextDevices, nextMemory, liveDevices, misuse, pc, held, run>>

(* MemoryTrack_DestroyInstance, lines 112-116.  Nothing is forwarded.      *)

DestroyInstanceBody(instance) ==
  /\ instance_dispatch' = MapErase(instance_dispatch, GetKey(instance))
  /\ liveInstances' = liveInstances \ {instance}
  /\ misuse' = (misuse \/ instance \notin liveInstances)
  /\ last' = Call("DestroyInstance", instance, 0, NullAllocateInfo, "",
                  "void", FALSE, <<>>, <<>>)

DestroyInstance ==
  /\ ~crashed /\ global_lock = 0
  /\ \E instance \in nextInstances : DestroyInstanceBody(instance)
  /\ UNCHANGED <<device_dispatch, devices, allocations, global_lock, output, crashed,
                 nextInstances, nextDevices, nextMemory, liveDevices, pc, held, run>>

-----------------------------------------------------------------------------
(* MemoryTrack_CreateDevice, lines 118-178.                                *)
(*                                                                         *)
(* After the table is stored, lines 163-174 read memoryProperties, which   *)
(* nothing has written (getMemoryProperties is fetched and never called):  *)
(* a local DeviceStats is sized by the indeterminate counts and filled     *)
(* from the indeterminate arrays, then dropped when the block ends.  The   *)
(* read either lets the handler return ("stray") or ends the process       *)
(* ("fault": resize of a huge count throws, or the loops run off the       *)
(* arrays).  Neither outcome stores anything in devices.                   *)

\* CreateDevice without the test of line 147: the table is stored whatever
\* the next link returned
CreateDeviceBody_NoResultTest(physicalDevice, chain, ret, device, wild) ==
  LET i == FindLink(chain, DeviceSType) IN
  IF i = 0
  THEN /\ last' = Call("CreateDevice", physicalDevice, 0, NullAllocateInfo, "",
                       VK_ERROR_INITIALIZATION_FAILED, FALSE, <<>>, chain)
       /\ UNCHANGED <<device_dispatch, devices, nextDevices, liveDevices, crashed>>
  ELSE LET advanced == AdvanceLink(chain, i)
           fwd == Forward("vkCreateDevice", NextResolver(chain, i),
                          IF ret = VK_SUCCESS THEN device ELSE VK_NULL_HANDLE, ret)
       IN
       /\ device_dispatch' = MapAssign(device_dispatch, GetKey(device),
                                       DeviceTable(device))
       /\ nextDevices' = IF ret = VK_SUCCESS
                         THEN MapAssign(nextDevices, device, physicalDevice)
                         ELSE nextDevices
       /\ liveDevices' = IF ret = VK_SUCCESS THEN liveDevices \cup {device}
                         ELSE liveDevices
       /\ devices' = devices
       /\ crashed' = (wild = "fault")
       /\ last' = Call("CreateDevice",
                       IF ret = VK_SUCCESS THEN device ELSE physicalDevice,
                       0, NullAllocateInfo, "", ret, wild = "fault", <<fwd>>, advanced)

CreateDeviceBody(physicalDevice, chain, ret, device, wild) ==
  LET i == FindLink(chain, DeviceSType) IN
  IF i = 0
  THEN \* lines 133-137
       /\ last' = Call("CreateDevice", physicalDevice, 0, NullAllocateInfo, "",
                       VK_ERROR_INITIALIZATION_FAILED, FALSE, <<>>, chain)
       /\ UNCHANGED <<device_dispatch, devices, nextDevices, liveDevices, crashed>>
  ELSE LET advanced == AdvanceLink(chain, i)
           fwd == Forward("vkCreateDevice", NextResolver(chain, i),
                          IF ret = VK_SUCCESS THEN device ELSE VK_NULL_HANDLE, ret)
       IN
       IF ret = VK_SUCCESS
       THEN /\ device_dispatch' = MapAssign(device_dispatch, GetKey(device),
                                            DeviceTable(device))
            /\ nextDevices' = MapAssign(nextDevices, device, physicalDevice)
            /\ liveDevices' = liveDevices \cup {device}
            /\ devices' = devices
            /\ crashed' = (wild = "fault")
            /\ last' = Call("CreateDevice", device, 0, NullAllocateInfo, "",
                            ret, wild = "fault", <<fwd>>, advanced)
       ELSE /\ last' = Call("CreateDevice", physicalDevice, 0, NullAllocateInfo, "",
                            ret, FALSE, <<fwd>>, advanced)
            /\ UNCHANGED <<device_dispatch, devices, nextDevices, liveDevices, crashed>>

CreateDevice ==
  /\ ~crashed /\ global_lock = 0
  /\ \E physicalDevice \in PhysicalDevices, chain \in Chains(DeviceSType) :
       /\ InstanceOf(physicalDevice) \in nextInstances
       /\ misuse' = (misuse \/ InstanceOf(physicalDevice) \notin liveInstances)
       /\ IF FindLink(chain, DeviceSType) = 0
          THEN CreateDeviceBody(physicalDevice, chain, VK_SUCCESS, VK_NULL_HANDLE, "stray")
          ELSE \E ret \in Results :
                 IF ret = VK_SUCCESS
                 THEN \E device \in Devices \ DOMAIN nextDevices, wild \in WildOutcomes :
                        CreateDeviceBody(physicalDevice, chain, ret, device, wild)
                 ELSE CreateDeviceBody(physicalDevice, chain, ret, VK_NULL_HANDLE, "stray")
  /\ UNCHANGED <<instance_dispatch, allocations, global_lock, output,
                 nextInstances, nextMemory, liveInstances, pc, held, run>>

-----------------------------------------------------------------------------
(* MemoryTrack_DestroyDevice, lines 180-211.  Nothing is forwarded.        *)

\* flags & bit, for a one-bit mask
HasBit(flags, bit) == (flags \div bit) % 2 = 1

\* lines 184, 195-204: the two sums over the heaps, in index order
RECURSIVE SumHeaps(_, _, _)
SumHeaps(heaps, i, deviceLocal) ==
  IF i > Len(heaps) THEN 0
  ELSE LET local == HasBit(heaps[i].flags, VK_MEMORY_HEAP_DEVICE_LOCAL_BIT)
           rest == SumHeaps(heaps, i + 1, deviceLocal)
       IN  IF local = deviceLocal THEN Wrap(heaps[i].maximumUsage + rest) ELSE rest

\* lines 186-207: everything the handler prints
Report(device, deviceStats) ==
  [device |-> device,
   typeLines |-> [i \in 1 .. Len(deviceStats.memoryTypes) |->
                    [index |-> i - 1,
                     bytes |-> deviceStats.memoryTypes[i].maximumUsage,
                     heap |-> deviceStats.memoryTypes[i].heapIndex]],
   heapLines |-> [i \in 1 .. Len(deviceStats.memoryHeaps) |->
                    [index |-> i - 1,
                     bytes |-> deviceStats.memoryHeaps[i].maximumUsage]],
   sum_device |-> SumHeaps(deviceStats.memoryHeaps, 1, TRUE),
   sum_host |-> SumHeaps(deviceStats.memoryHeaps, 1, FALSE)]

DestroyDeviceBody(device) ==
  LET found == MapIndex(devices, device, EmptyStats)   \* line 183
  IN  /\ output' = Append(output, Report(device, found[device]))
      /\ devices' = MapErase(found, device)
      /\ device_dispatch' = MapErase(device_dispatch, GetKey(device))
      /\ liveDevices' = liveDevices \ {device}
      /\ misuse' = (misuse \/ device \notin liveDevices)
      /\ last' = Call("DestroyDevice", device, 0, NullAllocateInfo, "",
                      "void", FALSE, <<>>, <<>>)

DestroyDevice ==
  /\ ~crashed /\ global_lock = 0
  /\ Len(output) < MaxReports
  /\ \E device \in DOMAIN nextDevices : DestroyDeviceBody(device)
  /\ UNCHANGED <<instance_dispatch, allocations, global_lock, crashed,
                 nextInstances, nextDevices, nextMemory, liveInstances, pc, held, run>>

-----------------------------------------------------------------------------
(* MemoryTrack_AllocateMemory, lines 213-234.                              *)
(*                                                                         *)
(* device_dispatch[key] inserts a null table for a key it does not hold;   *)
(* the call through its null AllocateMemory pointer is a jump to address 0 *)
(* and ends the process.                                                   *)

\* AllocateMemory without the test of line 218: the bookkeeping runs whatever
\* the next link returned
AllocateMemoryBody_NoResultTest(device, allocInfo, res, memory, wild) ==
  LET key == GetKey(device)
      tables == MapIndex(device_dispatch, key, NullDeviceTable)
      next == tables[key].AllocateMemory
      fwd == Forward("vkAllocateMemory", next, device, res)
      found == MapIndex(devices, device, EmptyStats)
      inside == HeapInBounds(found[device], allocInfo.memoryTypeIndex)
      fault == ~inside /\ wild = "fault"
  IN
  IF next = VK_NULL_HANDLE
  THEN /\ device_dispatch' = tables
       /\ crashed' = TRUE
       /\ last' = Call("AllocateMemory", device, 0, allocInfo, "",
                       "fault", TRUE, <<>>, <<>>)
       /\ UNCHANGED <<devices, allocations, nextMemory>>
  ELSE /\ nextMemory' = IF res = VK_SUCCESS
                        THEN MapAssign(nextMemory, memory,
                                       [device |-> device, info |-> allocInfo])
                        ELSE nextMemory
       /\ allocations' = MapAssign(allocations, memory, allocInfo)
       /\ devices' = [found EXCEPT ![device] = AccountAllocate(@, allocInfo)]
       /\ crashed' = fault
       /\ last' = Call("AllocateMemory", device, memory, allocInfo, "",
                       IF fault THEN "fault" ELSE res, fault, <<fwd>>, <<>>)
       /\ UNCHANGED device_dispatch

AllocateMemoryBody(device, allocInfo, res, memory, wild) ==
  LET key == GetKey(device)
      tables == MapIndex(device_dispatch, key, NullDeviceTable)   \* line 217
      next == tables[key].AllocateMemory
      fwd == Forward("vkAllocateMemory", next, device, res)
      found == MapIndex(devices, device, EmptyStats)              \* line 222
      inside == HeapInBounds(found[device], allocInfo.memoryTypeIndex)
      fault == ~inside /\ wild = "fault"
  IN
  IF next = VK_NULL_HANDLE
  THEN /\ device_dispatch' = tables
       /\ crashed' = TRUE
       /\ last' = Call("AllocateMemory", device, 0, allocInfo, "",
                       "fault", TRUE, <<>>, <<>>)
       /\ UNCHANGED <<devices, allocations, nextMemory>>
  ELSE IF res # VK_SUCCESS
  THEN /\ last' = Call("AllocateMemory", device, 0, allocInfo, "",
                       res, FALSE, <<fwd>>, <<>>)
       /\ UNCHANGED <<device_dispatch, devices, allocations, nextMemory, crashed>>
  ELSE /\ nextMemory' = MapAssign(nextMemory, memory,
                                  [device |-> device, info |-> allocInfo])
       /\ allocations' = MapAssign(allocations, memory, allocInfo)  \* line 220
       /\ devices' = [found EXCEPT ![device] = AccountAllocate(@, allocInfo)]
       /\ crashed' = fault
       /\ last' = Call("AllocateMemory", device, memory, allocInfo, "",
                       IF fault THEN "fault" ELSE res, fault, <<fwd>>, <<>>)
       /\ UNCHANGED device_dispatch

\* the requests an application may make on a device: a size and one of the
\* memory types the device's physical device reports
AllocateInfos(device) ==
  [allocationSize : Sizes,
   memoryTypeIndex : 0 .. Len(TopologyTypes(nextDevices[device])) - 1]

AllocateMemory ==
  /\ ~crashed /\ global_lock = 0
  /\ \E device \in DOMAIN nextDevices :
       \E allocInfo \in AllocateInfos(device) :
         /\ misuse' = (misuse \/ device \notin liveDevices)
         /\ IF GetKey(device) \notin DOMAIN device_dispatch
            THEN AllocateMemoryBody(device, allocInfo, VK_SUCCESS, VK_NULL_HANDLE, "stray")
            ELSE \E res \in Results :
                   IF res = VK_SUCCESS
                   THEN \E memory \in MemoryHandles \ DOMAIN nextMemory,
                           wild \in WildOutcomes :
                          AllocateMemoryBody(device, allocInfo, res, memory, wild)
                   ELSE AllocateMemoryBody(device, allocInfo, res, VK_NULL_HANDLE, "stray")
  /\ UNCHANGED <<instance_dispatch, global_lock, output, nextInstances, nextDevices,
                 liveInstances, liveDevices, pc, held, run>>

-----------------------------------------------------------------------------
(* MemoryTrack_FreeMemory, lines 236-249.                                  *)

\* FreeMemory that leaves the record in the map
FreeMemoryBody_NoErase(device, memory, wild) ==
  LET records == MapIndex(allocations, memory, NullAllocateInfo)  \* line 241
      allocInfo == records[memory]
      found == MapIndex(devices, device, EmptyStats)              \* line 242
      inside == HeapInBounds(found[device], allocInfo.memoryTypeIndex)
      key == GetKey(device)
      tables == MapIndex(device_dispatch, key, NullDeviceTable)   \* line 248
      next == tables[key].FreeMemory
      fwd == Forward("vkFreeMemory", next, device, "void")
  IN
  IF ~inside /\ wild = "fault"
  THEN \* the wild access of lines 243-245 traps, before line 246
       /\ allocations' = records
       /\ devices' = [found EXCEPT ![device] = AccountFree(@, allocInfo)]
       /\ crashed' = TRUE
       /\ last' = Call("FreeMemory", device, memory, allocInfo, "",
                       "fault", TRUE, <<>>, <<>>)
       /\ UNCHANGED <<device_dispatch, nextMemory>>
  ELSE /\ devices' = [found EXCEPT ![device] = AccountFree(@, allocInfo)]
       /\ allocations' = records
       /\ device_dispatch' = tables
       /\ IF next = VK_NULL_HANDLE
          THEN /\ crashed' = TRUE
               /\ last' = Call("FreeMemory", device, memory, allocInfo, "",
                               "fault", TRUE, <<>>, <<>>)
               /\ UNCHANGED nextMemory
          ELSE /\ crashed' = FALSE
               /\ nextMemory' = MapErase(nextMemory, memory)
               /\ last' = Call("FreeMemory", device, memory, allocInfo, "",
                               "void", FALSE, <<fwd>>, <<>>)

\* FreeMemory that empties the map instead of erasing one key
FreeMemoryBody_ClearsRecords(device, memory, wild) ==
  LET records == MapIndex(allocations, memory, NullAllocateInfo)  \* line 241
      allocInfo == records[memory]
      found == MapIndex(devices, device, EmptyStats)              \* line 242
      inside == HeapInBounds(found[device], allocInfo.memoryTypeIndex)
      key == GetKey(device)
      tables == MapIndex(device_dispatch, key, NullDeviceTable)   \* line 248
      next == tables[key].FreeMemory
      fwd == Forward("vkFreeMemory", next, device, "void")
  IN
  IF ~inside /\ wild = "fault"
  THEN \* the wild access of lines 243-245 traps, before line 246
       /\ allocations' = records
       /\ devices' = [found EXCEPT ![device] = AccountFree(@, allocInfo)]
       /\ crashed' = TRUE
       /\ last' = Call("FreeMemory", device, memory, allocInfo, "",
                       "fault", TRUE, <<>>, <<>>)
       /\ UNCHANGED <<device_dispatch, nextMemory>>
  ELSE /\ devices' = [found EXCEPT ![device] = AccountFree(@, allocInfo)]
       /\ allocations' = EmptyMap
       /\ device_dispatch' = tables
       /\ IF next = VK_NULL_HANDLE
          THEN /\ crashed' = TRUE
               /\ last' = Call("FreeMemory", device, memory, allocInfo, "",
                               "fault", TRUE, <<>>, <<>>)
               /\ UNCHANGED nextMemory
          ELSE /\ crashed' = FALSE
               /\ nextMemory' = MapErase(nextMemory, memory)
               /\ last' = Call("FreeMemory", device, memory, allocInfo, "",
                               "void", FALSE, <<fwd>>, <<>>)

\* FreeMemory that erases the map's first record, allocations.begin()
FreeMemoryBody_ErasesFirst(device, memory, wild) ==
  LET records == MapIndex(allocations, memory, NullAllocateInfo)  \* line 241
      allocInfo == records[memory]
      found == MapIndex(devices, device, EmptyStats)              \* line 242
      inside == HeapInBounds(found[device], allocInfo.memoryTypeIndex)
      key == GetKey(device)
      tables == MapIndex(device_dispatch, key, NullDeviceTable)   \* line 248
      next == tables[key].FreeMemory
      fwd == Forward("vkFreeMemory", next, device, "void")
  IN
  IF ~inside /\ wild = "fault"
  THEN \* the wild access of lines 243-245 traps, before line 246
       /\ allocations' = records
       /\ devices' = [found EXCEPT ![device] = AccountFree(@, allocInfo)]
       /\ crashed' = TRUE
       /\ last' = Call("FreeMemory", device, memory, allocInfo, "",
                       "fault", TRUE, <<>>, <<>>)
       /\ UNCHANGED <<device_dispatch, nextMemory>>
  ELSE /\ devices' = [found EXCEPT ![device] = AccountFree(@, allocInfo)]
       /\ allocations' = MapErase(records, CHOOSE m \in DOMAIN records :
                                             \A n \in DOMAIN records : m <= n)
       /\ device_dispatch' = tables
       /\ IF next = VK_NULL_HANDLE
          THEN /\ crashed' = TRUE
               /\ last' = Call("FreeMemory", device, memory, allocInfo, "",
                               "fault", TRUE, <<>>, <<>>)
               /\ UNCHANGED nextMemory
          ELSE /\ crashed' = FALSE
               /\ nextMemory' = MapErase(nextMemory, memory)
               /\ last' = Call("FreeMemory", device, memory, allocInfo, "",
                               "void", FALSE, <<fwd>>, <<>>)

FreeMemoryBody(device, memory, wild) ==
  LET records == MapIndex(allocations, memory, NullAllocateInfo)  \* line 241
      allocInfo == records[memory]
      found == MapIndex(devices, device, EmptyStats)              \* line 242
      inside == HeapInBounds(found[device], allocInfo.memoryTypeIndex)
      key == GetKey(device)
      tables == MapIndex(device_dispatch, key, NullDeviceTable)   \* line 248
      next == tables[key].FreeMemory
      fwd == Forward("vkFreeMemory", next, device, "void")
  IN
  IF ~inside /\ wild = "fault"
  THEN \* the wild access of lines 243-245 traps, before line 246
       /\ allocations' = records
       /\ devices' = [found EXCEPT ![device] = AccountFree(@, allocInfo)]
       /\ crashed' = TRUE
       /\ last' = Call("FreeMemory", device, memory, allocInfo, "",
                       "fault", TRUE, <<>>, <<>>)
       /\ UNCHANGED <<device_dispatch, nextMemory>>
  ELSE /\ devices' = [found EXCEPT ![device] = AccountFree(@, allocInfo)]
       /\ allocations' = MapErase(records, memory)                \* line 246
       /\ device_dispatch' = tables
       /\ IF next = VK_NULL_HANDLE
          THEN /\ crashed' = TRUE
               /\ last' = Call("FreeMemory", device, memory, allocInfo, "",
                               "fault", TRUE, <<>>, <<>>)
               /\ UNCHANGED nextMemory
          ELSE /\ crashed' = FALSE
               /\ nextMemory' = MapErase(nextMemory, memory)
               /\ last' = Call("FreeMemory", device, memory, allocInfo, "",
                               "void", FALSE, <<fwd>>, <<>>)

\* the free names a handle an allocation on this device returned and that has
\* not been freed since
ValidFree(device, memory) ==
  /\ memory \in DOMAIN nextMemory
  /\ nextMemory[memory].device = device

FreeMemory ==
  /\ ~crashed /\ global_lock = 0
  /\ \E device \in DOMAIN nextDevices, memory \in MemoryHandles,
        wild \in WildOutcomes :
       /\ FreeMemoryBody(device, memory, wild)
       /\ misuse' = (misuse \/ device \notin liveDevices \/ ~ValidFree(device, memory))
  /\ UNCHANGED <<instance_dispatch, global_lock, output, nextInstances, nextDevices,
                 liveInstances, liveDevices, pc, held, run>>

-----------------------------------------------------------------------------
(* MemoryTrack_EnumerateDeviceExtensionProperties, lines 287-304.          *)

LayerName == "VK_LAYER_NXT_MemoryTrack"

\* pLayerName: NULL, the layer's own name, another layer's name
LayerNames == {"NULL", LayerName, "VK_LAYER_other"}

\* a pass-through that forwards the query and answers VK_SUCCESS whatever came back
EnumerateDeviceExtensionPropertiesBody_DropsResult(physicalDevice, pLayerName, res) ==
  LET key == GetKey(physicalDevice)
      tables == MapIndex(instance_dispatch, key, NullInstanceTable)  \* line 298
      next == tables[key].EnumerateDeviceExtensionProperties
      fwd == Forward("vkEnumerateDeviceExtensionProperties", next, physicalDevice, res)
  IN
  IF pLayerName = "NULL" \/ pLayerName # LayerName
  THEN IF physicalDevice = VK_NULL_HANDLE
       THEN /\ last' = Call("EnumerateDeviceExtensionProperties", physicalDevice, 0,
                            NullAllocateInfo, pLayerName, VK_SUCCESS, FALSE, <<>>, <<>>)
            /\ UNCHANGED <<instance_dispatch, crashed>>
       ELSE /\ instance_dispatch' = tables
            /\ crashed' = (next = VK_NULL_HANDLE)
            /\ last' = IF next = VK_NULL_HANDLE
                       THEN Call("EnumerateDeviceExtensionProperties", physicalDevice, 0,
                                 NullAllocateInfo, pLayerName, "fault", TRUE, <<>>, <<>>)
                       ELSE Call("EnumerateDeviceExtensionProperties", physicalDevice, 0,
                                 NullAllocateInfo, pLayerName, VK_SUCCESS, FALSE, <<fwd>>, <<>>)
  ELSE \* lines 301-303: no extensions of our own
       /\ last' = Call("EnumerateDeviceExtensionProperties", physicalDevice, 0,
                       NullAllocateInfo, pLayerName, VK_SUCCESS, FALSE, <<>>, <<>>)
       /\ UNCHANGED <<instance_dispatch, crashed>>

EnumerateDeviceExtensionPropertiesBody(physicalDevice, pLayerName, res) ==
  LET key == GetKey(physicalDevice)
      tables == MapIndex(instance_dispatch, key, NullInstanceTable)  \* line 298
      next == tables[key].EnumerateDeviceExtensionProperties
      fwd == Forward("vkEnumerateDeviceExtensionProperties", next, physicalDevice, res)
  IN
  IF pLayerName = "NULL" \/ pLayerName # LayerName
  THEN IF physicalDevice = VK_NULL_HANDLE
       THEN /\ last' = Call("EnumerateDeviceExtensionProperties", physicalDevice, 0,
                            NullAllocateInfo, pLayerName, VK_SUCCESS, FALSE, <<>>, <<>>)
            /\ UNCHANGED <<instance_dispatch, crashed>>
       ELSE /\ instance_dispatch' = tables
            /\ crashed' = (next = VK_NULL_HANDLE)
            /\ last' = IF next = VK_NULL_HANDLE
                       THEN Call("EnumerateDeviceExtensionProperties", physicalDevice, 0,
                                 NullAllocateInfo, pLayerName, "fault", TRUE, <<>>, <<>>)
                       ELSE Call("EnumerateDeviceExtensionProperties", physicalDevice, 0,
                                 NullAllocateInfo, pLayerName, res, FALSE, <<fwd>>, <<>>)
  ELSE \* lines 301-303: no extensions of our own
       /\ last' = Call("EnumerateDeviceExtensionProperties", physicalDevice, 0,
                       NullAllocateInfo, pLayerName, VK_SUCCESS, FALSE, <<>>, <<>>)
       /\ UNCHANGED <<instance_dispatch, crashed>>

EnumerateDeviceExtensionProperties ==
  /\ ~crashed /\ global_lock = 0
  /\ \E physicalDevice \in PhysicalDevices \cup {VK_NULL_HANDLE},
        pLayerName \in LayerNames :
       /\ physicalDevice # VK_NULL_HANDLE => InstanceOf(physicalDevice) \in nextInstances
       /\ IF /\ pLayerName # LayerName
             /\ physicalDevice # VK_NULL_HANDLE
             /\ GetKey(physicalDevice) \in DOMAIN instance_dispatch
          THEN \E res \in Results :
                 EnumerateDeviceExtensionPropertiesBody(physicalDevice, pLayerName, res)
          ELSE EnumerateDeviceExtensionPropertiesBody(physicalDevice, pLayerName,
                                                      VK_SUCCESS)
       /\ misuse' = (misuse \/ (/\ physicalDevice # VK_NULL_HANDLE
                                /\ InstanceOf(physicalDevice) \notin liveInstances))
  /\ UNCHANGED <<device_dispatch, devices, allocations, global_lock, output,
                 nextInstances, nextDevices, nextMemory, liveInstances, liveDevices,
                 pc, held, run>>

-----------------------------------------------------------------------------
(* MemoryTrack_GetDeviceProcAddr and MemoryTrack_GetInstanceProcAddr,      *)
(* lines 309-350.                                                          *)

\* a list of intercepted names that lacks vkFreeMemory
DeviceNames_NoFreeMemory ==
  {"vkGetDeviceProcAddr", "vkEnumerateDeviceLayerProperties",
   "vkEnumerateDeviceExtensionProperties", "vkCreateDevice", "vkDestroyDevice",
   "vkAllocateMemory"}

\* lines 314-320
DeviceNames ==
  {"vkGetDeviceProcAddr", "vkEnumerateDeviceLayerProperties",
   "vkEnumerateDeviceExtensionProperties", "vkCreateDevice", "vkDestroyDevice",
   "vkAllocateMemory", "vkFreeMemory"}

\* lines 331-344
InstanceNames ==
  {"vkGetInstanceProcAddr", "vkEnumerateInstanceLayerProperties",
   "vkEnumerateInstanceExtensionProperties", "vkCreateInstance",
   "vkDestroyInstance"} \cup DeviceNames

\* names an application asks for: the ones the layer intercepts and one it
\* does not
AskedNames ==
  {"vkGetInstanceProcAddr", "vkEnumerateInstanceLayerProperties",
   "vkEnumerateInstanceExtensionProperties", "vkCreateInstance",
   "vkDestroyInstance", "vkGetDeviceProcAddr", "vkEnumerateDeviceLayerProperties",
   "vkEnumerateDeviceExtensionProperties", "vkCreateDevice", "vkDestroyDevice",
   "vkAllocateMemory", "vkFreeMemory", "vkCmdDraw"}

\* what the next link's resolver answers: one of its functions, or NULL for a
\* name it does not know
NextAnswers == {"next", "NULL"}

GetDeviceProcAddrBody(device, pName, answer) ==
  LET key == GetKey(device)
      tables == MapIndex(device_dispatch, key, NullDeviceTable)   \* line 324
      next == tables[key].GetDeviceProcAddr
      fwd == Forward("vkGetDeviceProcAddr", next, device, answer)
  IN
  IF pName \in DeviceNames
  THEN /\ last' = Call("GetDeviceProcAddr", device, 0, NullAllocateInfo, pName,
                       "layer", FALSE, <<>>, <<>>)
       /\ UNCHANGED <<device_dispatch, crashed>>
  ELSE /\ device_dispatch' = tables
       /\ crashed' = (next = VK_NULL_HANDLE)
       /\ last' = IF next = VK_NULL_HANDLE
                  THEN Call("GetDeviceProcAddr", device, 0, NullAllocateInfo, pName,
                            "fault", TRUE, <<>>, <<>>)
                  ELSE Call("GetDeviceProcAddr", device, 0, NullAllocateInfo, pName,
                            answer, FALSE, <<fwd>>, <<>>)

GetDeviceProcAddr ==
  /\ ~crashed /\ global_lock = 0
  /\ \E device \in DOMAIN nextDevices, pName \in AskedNames :
       /\ IF pName \in DeviceNames \/ GetKey(device) \notin DOMAIN device_dispatch
          THEN GetDeviceProcAddrBody(device, pName, "NULL")
          ELSE \E answer \in NextAnswers : GetDeviceProcAddrBody(device, pName, answer)
       /\ misuse' = (misuse \/ device \notin liveDevices)
  /\ UNCHANGED <<instance_dispatch, devices, allocations, global_lock, output,
                 nextInstances, nextDevices, nextMemory, liveInstances, liveDevices,
                 pc, held, run>>

GetInstanceProcAddrBody(instance, pName, answer) ==
  LET key == GetKey(instance)
      tables == MapIndex(instance_dispatch, key, NullInstanceTable)  \* line 348
      next == tables[key].GetInstanceProcAddr
      fwd == Forward("vkGetInstanceProcAddr", next, instance, answer)
  IN
  IF pName \in InstanceNames
  THEN /\ last' = Call("GetInstanceProcAddr", instance, 0, NullAllocateInfo, pName,
                       "layer", FALSE, <<>>, <<>>)
       /\ UNCHANGED <<instance_dispatch, crashed>>
  ELSE /\ instance_dispatch' = tables
       /\ crashed' = (next = VK_NULL_HANDLE)
       /\ last' = IF next = VK_NULL_HANDLE
                  THEN Call("GetInstanceProcAddr", instance, 0, NullAllocateInfo, pName,
                            "fault", TRUE, <<>>, <<>>)
                  ELSE Call("GetInstanceProcAddr", instance, 0, NullAllocateInfo, pName,
                            answer, FALSE, <<fwd>>, <<>>)

GetInstanceProcAddr ==
  /\ ~crashed /\ global_lock = 0
  /\ \E instance \in nextInstances, pName \in AskedNames :
       /\ IF pName \in InstanceNames \/ GetKey(instance) \notin DOMAIN instance_dispatch
          THEN GetInstanceProcAddrBody(instance, pName, "NULL")
          ELSE \E answer \in NextAnswers :
                 GetInstanceProcAddrBody(instance, pName, answer)
       /\ misuse' = (misuse \/ instance \notin liveInstances)
  /\ UNCHANGED <<device_dispatch, devices, allocations, global_lock, output,
                 nextInstances, nextDevices, nextMemory, liveInstances, liveDevices,
                 pc, held, run>>

-----------------------------------------------------------------------------
(* The application calls the entry points in any order, one at a time.     *)

Next ==
  \/ CreateInstance
  \/ DestroyInstance
  \/ CreateDevice
  \/ DestroyDevice
  \/ AllocateMemory
  \/ FreeMemory
  \/ EnumerateDeviceExtensionProperties
  \/ GetDeviceProcAddr
  \/ GetInstanceProcAddr

Spec == Init /\ [][Next]_vars

-----------------------------------------------------------------------------
(* Two application threads on one device.                                  *)
(*                                                                         *)
(* AllocateMemory and FreeMemory take global_lock in their first statement *)
(* (lines 216, 239) and hold it to the end of the handler, so a thread's   *)
(* call is two steps: acquire the lock, then run the whole handler and     *)
(* release.  Each thread runs a fixed program; the next link grants every  *)
(* request.                                                                *)

\* the first instance, its physical device and the first device of the next link
TheInstance == CHOOSE i \in Instances : \A j \in Instances : i <= j
ThePhysicalDevice == 10 + TheInstance
TheDevice == CHOOSE d \in Devices : \A e \in Devices : d <= e

AllocOp(size, typeIndex) ==
  [op |-> "alloc", info |-> [allocationSize |-> size, memoryTypeIndex |-> typeIndex],
   slot |-> 0]

\* free the slot-th handle the thread obtained
FreeOp(slot) == [op |-> "free", info |-> NullAllocateInfo, slot |-> slot]

Program(t) ==
  IF t = 1 THEN << AllocOp(1, 0), FreeOp(1), AllocOp(1, 1) >>
           ELSE << AllocOp(1, 0), FreeOp(1), AllocOp(1, 0) >>

\* the state after CreateInstance and CreateDevice have succeeded
InitThreads ==
  /\ instance_dispatch = (GetKey(TheInstance) :> InstanceTable(TheInstance))
  /\ device_dispatch = (GetKey(TheDevice) :> DeviceTable(TheDevice))
  /\ devices = EmptyMap
  /\ allocations = EmptyMap
  /\ global_lock = 0
  /\ output = <<>>
  /\ crashed = FALSE
  /\ nextInstances = {TheInstance}
  /\ nextDevices = (TheDevice :> ThePhysicalDevice)
  /\ nextMemory = EmptyMap
  /\ liveInstances = {TheInstance}
  /\ liveDevices = {TheDevice}
  /\ misuse = FALSE
  /\ last = Call("CreateDevice", TheDevice, 0, NullAllocateInfo, "", VK_SUCCESS, FALSE,
                 << Forward("vkCreateDevice", 1, TheDevice, VK_SUCCESS) >>,
                 << LinkRecord(DeviceSType, 0) >>)
  /\ pc = [t \in Threads |-> 1]
  /\ held = [t \in Threads |-> <<>>]
  /\ run = [t \in Threads |-> Outside]

ThreadDone(t) == pc[t] > Len(Program(t))

\* scoped_lock l(global_lock)
ThreadLock(t) ==
  /\ ~crashed /\ global_lock = 0
  /\ ~ThreadDone(t)
  /\ global_lock' = t
  /\ UNCHANGED <<instance_dispatch, device_dispatch, devices, allocations, output,
                 crashed, nextInstances, nextDevices, nextMemory, liveInstances,
                 liveDevices, misuse, last, pc, held, run>>

\* the handler's body, then the lock_guard's destructor; a fault ends the
\* process inside the handler
ThreadCall(t) ==
  LET step == Program(t)[pc[t]] IN
  /\ ~crashed /\ global_lock = t
  /\ IF step.op = "alloc"
     THEN \E memory \in MemoryHandles \ DOMAIN nextMemory, wild \in WildOutcomes :
            /\ AllocateMemoryBody(TheDevice, step.info, VK_SUCCESS, memory, wild)
            /\ held' = [held EXCEPT ![t] = Append(@, memory)]
     ELSE \E wild \in WildOutcomes :
            /\ FreeMemoryBody(TheDevice, held[t][step.slot], wild)
            /\ held' = held
  /\ pc' = IF crashed' THEN pc ELSE [pc EXCEPT ![t] = @ + 1]
  /\ global_lock' = IF crashed' THEN t ELSE 0
  /\ UNCHANGED <<instance_dispatch, output, nextInstances, nextDevices,
                 liveInstances, liveDevices, misuse, run>>

NextThreads == \E t \in Threads : ThreadLock(t) \/ ThreadCall(t)

SpecThreads == InitThreads /\ [][NextThreads]_vars

-----------------------------------------------------------------------------
(* Vocabulary of the properties.                                           *)

\* the topology of the physical device `device` was created on
TypesOf(device) == TopologyTypes(nextDevices[device])
HeapsOf(device) == TopologyHeaps(nextDevices[device])

\* devices holds, for `device`, one MemoryTypeInfo per memory type and one
\* MemoryHeapInfo per memory heap of its topology, with the static properties
Accounted(device) ==
  /\ device \in DOMAIN devices
  /\ Len(devices[device].memoryTypes) = Len(TypesOf(device))
  /\ Len(devices[device].memoryHeaps) = Len(HeapsOf(device))
  /\ \A i \in 1 .. Len(TypesOf(device)) :
       devices[device].memoryTypes[i].heapIndex = TypesOf(device)[i]
  /\ \A h \in 1 .. Len(HeapsOf(device)) :
       devices[device].memoryHeaps[h].flags = HeapsOf(device)[h]

RECURSIVE SumOver(_, _)
SumOver(f, S) ==
  IF S = {} THEN 0
  ELSE LET x == CHOOSE y \in S : TRUE IN f[x] + SumOver(f, S \ {x})

\* bytes of the live allocations of `device` in memory type typeIndex
LiveBytesOfType(device, typeIndex) ==
  LET mine == {m \in DOMAIN nextMemory :
                 /\ nextMemory[m].device = device
                 /\ nextMemory[m].info.memoryTypeIndex = typeIndex}
  IN  SumOver([m \in mine |-> nextMemory[m].info.allocationSize], mine)

\* bytes of the live allocations of `device` in the types of heap heapIndex
LiveBytesOfHeap(device, heapIndex) ==
  LET mine == {i \in 1 .. Len(TypesOf(device)) : TypesOf(device)[i] = heapIndex}
  IN  SumOver([i \in mine |-> LiveBytesOfType(device, i - 1)], mine)

\* the last call was an AllocateMemory the next link granted, or a FreeMemory,
\* and no call so far broke the API contract
AccountingCall ==
  /\ ~misuse
  /\ \/ /\ last.op = "AllocateMemory"
        /\ last.forwarded # <<>>
        /\ last.forwarded[1].result = VK_SUCCESS
     \/ last.op = "FreeMemory"

-----------------------------------------------------------------------------
(* C1: after every successful AllocateMemory or FreeMemory on a created    *)
(* device the call has returned, every memory type and heap of the device  *)
(* has a currentUsage >= 0, and each heap's currentUsage is the sum of     *)
(* the currentUsage of the types mapped to it.                             *)
C1_UsageConsistent ==
  AccountingCall =>
    LET d == last.handle IN
    /\ ~crashed
    /\ Accounted(d)
    /\ \A i \in 1 .. Len(TypesOf(d)) : devices[d].memoryTypes[i].currentUsage >= 0
    /\ \A h \in 1 .. Len(HeapsOf(d)) :
         LET members == {i \in 1 .. Len(TypesOf(d)) : TypesOf(d)[i] = h - 1}
         IN  /\ devices[d].memoryHeaps[h].currentUsage >= 0
             /\ devices[d].memoryHeaps[h].currentUsage =
                  SumOver([i \in members |-> devices[d].memoryTypes[i].currentUsage],
                          members)

(* C2: for every memory type and heap of a device on which allocate/free   *)
(* calls run, maximumUsage >= currentUsage.                                *)
C2_MaximumAtLeastCurrent ==
  AccountingCall =>
    LET d == last.handle IN
    /\ ~crashed
    /\ Accounted(d)
    /\ \A i \in 1 .. Len(TypesOf(d)) :
         devices[d].memoryTypes[i].maximumUsage >= devices[d].memoryTypes[i].currentUsage
    /\ \A h \in 1 .. Len(HeapsOf(d)) :
         devices[d].memoryHeaps[h].maximumUsage >= devices[d].memoryHeaps[h].currentUsage

(* C3: after successful allocate/free calls each type's currentUsage is    *)
(* the total size of its live allocations, its maximumUsage is at least    *)
(* that, and likewise for each heap over its types.                        *)
C3_UsageIsLiveBytes ==
  AccountingCall =>
    LET d == last.handle IN
    /\ ~crashed
    /\ Accounted(d)
    /\ \A i \in 1 .. Len(TypesOf(d)) :
         /\ devices[d].memoryTypes[i].currentUsage = LiveBytesOfType(d, i - 1)
         /\ devices[d].memoryTypes[i].maximumUsage >= LiveBytesOfType(d, i - 1)
    /\ \A h \in 1 .. Len(HeapsOf(d)) :
         /\ devices[d].memoryHeaps[h].currentUsage = LiveBytesOfHeap(d, h - 1)
         /\ devices[d].memoryHeaps[h].maximumUsage >= LiveBytesOfHeap(d, h - 1)

(* C4: a FreeMemory on a live device for a handle that is not a live       *)
(* allocation of that device is rejected or faults: it is not forwarded as *)
(* a normal free, it adds no AllocationRecord and changes no counter.      *)
C4_InvalidFreeRejected ==
  [][ ( /\ last'.op = "FreeMemory"
        /\ last'.handle \in liveDevices
        /\ ~ValidFree(last'.handle, last'.memory) )
      => ( /\ last'.forwarded = <<>>
           /\ allocations' = allocations
           /\ \A d \in DOMAIN devices :
                d \in DOMAIN devices' /\ devices'[d] = devices[d] ) ]_vars

(* C5: a registry holds entries only for keys of handles that are live:    *)
(* a destroyed handle has no entry, and a later lookup does not make one.  *)
C5_NoStaleRegistryEntries ==
  /\ \A k \in DOMAIN instance_dispatch : \E i \in liveInstances : GetKey(i) = k
  /\ \A k \in DOMAIN device_dispatch : \E d \in liveDevices : GetKey(d) = k

(* C6: every device created through the layer and not destroyed has a      *)
(* DeviceStats under its handle, sized to its topology; right after the    *)
(* CreateDevice all its counters are zero.                                 *)
C6_StatsStoredAtCreate ==
  (~misuse /\ ~crashed) =>
    \A d \in liveDevices :
      /\ Accounted(d)
      /\ (last.op = "CreateDevice" /\ last.handle = d /\ last.result = VK_SUCCESS)
           => /\ \A i \in 1 .. Len(TypesOf(d)) :
                   /\ devices[d].memoryTypes[i].currentUsage = 0
                   /\ devices[d].memoryTypes[i].maximumUsage = 0
              /\ \A h \in 1 .. Len(HeapsOf(d)) :
                   /\ devices[d].memoryHeaps[h].currentUsage = 0
                   /\ devices[d].memoryHeaps[h].maximumUsage = 0

(* C7: when both threads have run their programs, the device's counters    *)
(* are there and show the bytes the two programs leave allocated, whatever *)
(* the interleaving was.                                                   *)
C7_ThreadsConverge ==
  (\A t \in Threads : ThreadDone(t)) =>
    /\ ~crashed
    /\ Accounted(TheDevice)
    /\ devices[TheDevice].memoryTypes[1].currentUsage = 1
    /\ devices[TheDevice].memoryTypes[2].currentUsage = 1
    /\ devices[TheDevice].memoryHeaps[1].currentUsage = 1
    /\ devices[TheDevice].memoryHeaps[2].currentUsage = 1

(* C8: an AllocateMemory whose forwarded call fails returns the next       *)
(* link's code and changes none of the layer's maps.                       *)
C8_FailedAllocateTouchesNothing ==
  [][ ( /\ last'.op = "AllocateMemory"
        /\ last'.forwarded # <<>>
        /\ last'.forwarded[1].result # VK_SUCCESS )
      => ( /\ last'.result = last'.forwarded[1].result
           /\ ~last'.fault /\ ~crashed'
           /\ Len(last'.forwarded) = 1
           /\ UNCHANGED <<allocations, devices, instance_dispatch, device_dispatch>> )
    ]_vars

C8_Witness ==
  /\ last.op = "AllocateMemory"
  /\ last.forwarded # <<>>
  /\ last.forwarded[1].result = "VK_ERROR_OUT_OF_DEVICE_MEMORY"
  /\ last.result = "VK_ERROR_OUT_OF_DEVICE_MEMORY"
  /\ allocations # EmptyMap
  /\ ~crashed

(* C9: a table is published only by a create call whose forwarded creation *)
(* succeeded; a create call without a link record returns                  *)
(* VK_ERROR_INITIALIZATION_FAILED, forwards nothing and changes no layer   *)
(* state; a create call whose forwarded creation fails returns that code,  *)
(* publishes no table and creates no DeviceStats.                          *)
IsCreate(call) == call.op \in {"CreateInstance", "CreateDevice"}

LinkSType(call) == IF call.op = "CreateInstance" THEN InstanceSType ELSE DeviceSType

\* registry has gained or replaced a table with entry points in it
Published(before, after, nullTable) ==
  \E k \in DOMAIN after :
    /\ after[k] # nullTable
    /\ k \notin DOMAIN before \/ before[k] # after[k]

C9_PublishOnlyOnSuccess ==
  [][ /\ ( \/ Published(instance_dispatch, instance_dispatch', NullInstanceTable)
           \/ Published(device_dispatch, device_dispatch', NullDeviceTable) )
         => ( /\ IsCreate(last')
              /\ last'.result \in {VK_SUCCESS}
              /\ last'.forwarded # <<>>
              /\ last'.forwarded[1].result = VK_SUCCESS )
      /\ ( IsCreate(last') /\ FindLink(last'.chain, LinkSType(last')) = 0 )
         => ( /\ last'.result = VK_ERROR_INITIALIZATION_FAILED
              /\ last'.forwarded = <<>>
              /\ UNCHANGED <<layerVars, crashed, output>> )
      /\ ( IsCreate(last') /\ last'.forwarded # <<>>
           /\ last'.forwarded[1].result # VK_SUCCESS )
         => ( /\ last'.result = last'.forwarded[1].result
              /\ Len(last'.forwarded) = 1
              /\ UNCHANGED <<layerVars, crashed>> )
    ]_vars

C9_Witness ==
  /\ last.op = "CreateDevice"
  /\ last.forwarded # <<>>
  /\ last.result = "VK_ERROR_OUT_OF_HOST_MEMORY"
  /\ liveDevices # {}
  /\ DOMAIN device_dispatch = {GetKey(d) : d \in liveDevices}
  /\ ~crashed

(* C10: the report DestroyDevice prints for a device has one line per      *)
(* memory type and one per heap of the device's topology, in index order,  *)
(* and the two totals are the sums of the heaps' maxima by device-local    *)
(* flag.                                                                   *)
C10_ReportListsTopology ==
  (~misuse /\ last.op = "DestroyDevice") =>
    /\ output # <<>>
    /\ LET r == output[Len(output)]
           d == last.handle
       IN  /\ r.device = d
           /\ Len(r.typeLines) = Len(TypesOf(d))
           /\ Len(r.heapLines) = Len(HeapsOf(d))
           /\ \A i \in 1 .. Len(r.typeLines) :
                r.typeLines[i].index = i - 1 /\ r.typeLines[i].heap = TypesOf(d)[i]
           /\ \A h \in 1 .. Len(r.heapLines) : r.heapLines[h].index = h - 1
           /\ LET local == {h \in 1 .. Len(r.heapLines) :
                              HasBit(HeapsOf(d)[h], VK_MEMORY_HEAP_DEVICE_LOCAL_BIT)}
                  host == (1 .. Len(r.heapLines)) \ local
              IN  /\ r.sum_device = SumOver([h \in local |-> r.heapLines[h].bytes], local)
                  /\ r.sum_host = SumOver([h \in host |-> r.heapLines[h].bytes], host)

(* C11: every intercepted call is forwarded to the next link exactly once, *)
(* with its own arguments: after CreateInstance or CreateDevice that found *)
(* its link record, AllocateMemory, FreeMemory, DestroyInstance or         *)
(* DestroyDevice on a live handle, the next link has seen exactly one call *)
(* of the entry point of the same name.                                    *)
NextLinkName(op) ==
  CASE op = "CreateInstance"  -> "vkCreateInstance"
    [] op = "DestroyInstance" -> "vkDestroyInstance"
    [] op = "CreateDevice"    -> "vkCreateDevice"
    [] op = "DestroyDevice"   -> "vkDestroyDevice"
    [] op = "AllocateMemory"  -> "vkAllocateMemory"
    [] op = "FreeMemory"      -> "vkFreeMemory"
    [] OTHER                  -> ""

C11_ForwardedExactlyOnce ==
  ( /\ ~misuse
    /\ NextLinkName(last.op) # ""
    /\ IsCreate(last) => FindLink(last.chain, LinkSType(last)) # 0 )
  => ( /\ Len(last.forwarded) = 1
       /\ last.forwarded[1].fn = NextLinkName(last.op)
       /\ ~IsCreate(last) => last.forwarded[1].handle = last.handle )

(* C12: each memory handle a successful AllocateMemory returned and that   *)
(* has not been freed has exactly one AllocationRecord, holding the size   *)
(* and memory-type index of its request, and a handle that is not live has *)
(* no record: the records are those of the next link's live allocations.   *)
(* It holds in every state of a run that keeps to the API's rules, and in  *)
(* every state in which the process has not faulted.                       *)
LiveRecords == [m \in DOMAIN nextMemory |-> nextMemory[m].info]

C14_DeviceScope ==
  {"vkGetDeviceProcAddr", "vkEnumerateDeviceLayerProperties",
   "vkEnumerateDeviceExtensionProperties", "vkCreateDevice", "vkDestroyDevice",
   "vkAllocateMemory", "vkFreeMemory"}

C14_InstanceScope ==
  {"vkGetInstanceProcAddr", "vkEnumerateInstanceLayerProperties",
   "vkEnumerateInstanceExtensionProperties", "vkCreateInstance",
   "vkDestroyInstance"} \cup C14_DeviceScope

C14_Resolver(call) ==
  call.op \in {"GetDeviceProcAddr", "GetInstanceProcAddr"}

C14_ResolversArePureLookups ==
  [][ C14_Resolver(last') =>
      LET call == last'
          device == call.op = "GetDeviceProcAddr"
          scope == IF device THEN C14_DeviceScope ELSE C14_InstanceScope
          live == IF device THEN call.handle \in liveDevices
                            ELSE call.handle \in liveInstances
      IN  /\ call.name \in scope =>
               /\ call.result = "layer"
               /\ call.forwarded = <<>>
               /\ UNCHANGED <<layerVars, crashed, output>>
          /\ (call.name \notin scope /\ live) =>
               /\ call.forwarded =
                    << Forward(IF device THEN "vkGetDeviceProcAddr"
                                         ELSE "vkGetInstanceProcAddr",
                               call.handle, call.handle, call.result) >>
               /\ call.result \in NextAnswers
               /\ UNCHANGED <<layerVars, crashed, output>>
    ]_vars

C14_Witness ==
  /\ last.op = "GetDeviceProcAddr"
  /\ last.name = "vkCmdDraw"
  /\ last.handle \in liveDevices
  /\ last.result = "NULL"
  /\ Cardinality(liveDevices) = 2
  /\ allocations # EmptyMap

(* C15: EnumerateDeviceExtensionProperties called with no layer name or    *)
(* with another layer's name, on a non-null physical device of a live      *)
(* instance, makes one call of the next link's                             *)
(* EnumerateDeviceExtensionProperties, through the table published for the *)
(* instance that owns the physical device and with the same physical       *)
(* device, and returns exactly the result of that call.                    *)
C15_PassThrough(call) ==
  /\ call.op = "EnumerateDeviceExtensionProperties"
  /\ call.name # LayerName
  /\ call.handle # VK_NULL_HANDLE
  /\ InstanceOf(call.handle) \in liveInstances

C15_EnumerateIsNextLinks ==
  C15_PassThrough(last) =>
    /\ Len(last.forwarded) = 1
    /\ last.forwarded[1].fn = "vkEnumerateDeviceExtensionProperties"
    /\ last.forwarded[1].via = InstanceOf(last.handle)
    /\ last.forwarded[1].handle = last.handle
    /\ last.result = last.forwarded[1].result
    /\ ~crashed

C15_Witness ==
  /\ C15_PassThrough(last)
  /\ last.name = "VK_LAYER_other"
  /\ last.result = "VK_ERROR_OUT_OF_HOST_MEMORY"
  /\ liveDevices # {}

(* C17: whenever an intercepted call forwards through the registry         *)
(* (AllocateMemory, FreeMemory, GetDeviceProcAddr, GetInstanceProcAddr,    *)
(* EnumerateDeviceExtensionProperties), the registry holds a table for the *)
(* key of the handle the call was made on, that table is the one the       *)
(* handle's own creation published, and the call went through it: never    *)
(* through another handle's table, never through a default-constructed one.*)
C17_Forwards(call) ==
  /\ call.op \in {"AllocateMemory", "FreeMemory", "GetDeviceProcAddr",
                  "GetInstanceProcAddr", "EnumerateDeviceExtensionProperties"}
  /\ call.forwarded # <<>>

C17_OwnTableOnly ==
  C17_Forwards(last) =>
    LET device == last.op \in {"AllocateMemory", "FreeMemory", "GetDeviceProcAddr"}
        owner == IF last.op = "EnumerateDeviceExtensionProperties"
                 THEN InstanceOf(last.handle) ELSE last.handle
        key == GetKey(last.handle)
    IN  /\ owner # VK_NULL_HANDLE
        /\ \A i \in 1 .. Len(last.forwarded) : last.forwarded[i].via = owner
        /\ IF device
           THEN /\ key \in DOMAIN device_dispatch
                /\ device_dispatch[key] = DeviceTable(owner)
           ELSE /\ key \in DOMAIN instance_dispatch
                /\ instance_dispatch[key] = InstanceTable(owner)

C17_Witness ==
  /\ last.op = "AllocateMemory"
  /\ last.forwarded # <<>>
  /\ last.result = VK_SUCCESS
  /\ Cardinality(liveDevices) = 2
  /\ \E m \in DOMAIN nextMemory : nextMemory[m].device # last.handle

(* C18: a CreateInstance or CreateDevice call that finds its link record   *)
(* reads the next link's resolver from the link the record points at,      *)
(* moves the record's pointer on by exactly one link, and forwards the     *)
(* creation through the resolver it read, so that the next link sees the   *)
(* rest of the list; a call that finds no link record moves nothing.       *)
C18_AdvancedExactlyOnce ==
  IsCreate(last) =>
    LET i == FindLink(last.chain, LinkSType(last)) IN
    IF i # 0
    THEN /\ Len(last.forwarded) = 1
         \* the resolver used is the one of the link before the move, and
         \* the record now names the link after it
         /\ last.chain[i].layerInfo = last.forwarded[1].via - 1
         /\ last.chain[i].layerInfo >= 0
         /\ \A j \in 1 .. Len(last.chain) : j # i => last.chain[j].layerInfo = 0
    ELSE /\ last.forwarded = <<>>
         /\ last.chain \in Chains(LinkSType(last))

C18_Witness ==
  /\ last.op = "CreateDevice"
  /\ Len(last.chain) = 2
  /\ last.forwarded # <<>>
  /\ last.forwarded[1].via = 2
  /\ last.chain[2].layerInfo = 1
  /\ last.result = VK_SUCCESS

(* C19: a successful AllocateMemory or FreeMemory on a live device d for   *)
(* memory type t changes only d's counters for t and for t's heap, and the *)
(* AllocationRecord of the one handle it allocates or frees.  Every other  *)
(* type's and heap's counters of d, every counter of every other device,   *)
(* the static properties, every other record and both registries are as    *)
(* they were.                                                              *)
C19_StatsOf(map, device) ==
  IF device \in DOMAIN map THEN map[device] ELSE EmptyStats

\* within one DeviceStats: only the counters of type typeIndex and of its heap
\* may differ
C19_OnlyTypeAndHeap(before, after, typeIndex) ==
  /\ Len(after.memoryTypes) = Len(before.memoryTypes)
  /\ Len(after.memoryHeaps) = Len(before.memoryHeaps)
  /\ \A i \in 1 .. Len(before.memoryTypes) :
       /\ after.memoryTypes[i].heapIndex = before.memoryTypes[i].heapIndex
       /\ i # typeIndex + 1 => after.memoryTypes[i] = before.memoryTypes[i]
  /\ \A h \in 1 .. Len(before.memoryHeaps) :
       /\ after.memoryHeaps[h].flags = before.memoryHeaps[h].flags
       /\ ( ~ ( /\ TypeInBounds(before, typeIndex)
                /\ h = before.memoryTypes[typeIndex + 1].heapIndex + 1 ) )
          => after.memoryHeaps[h] = before.memoryHeaps[h]

C19_Frame(device, memory, typeIndex) ==
  /\ \A m \in MemoryHandles \ {memory} :
       /\ (m \in DOMAIN allocations') = (m \in DOMAIN allocations)
       /\ m \in DOMAIN allocations => allocations'[m] = allocations[m]
  /\ \A d \in Devices \ {device} :
       /\ (d \in DOMAIN devices') = (d \in DOMAIN devices)
       /\ d \in DOMAIN devices => devices'[d] = devices[d]
  /\ C19_OnlyTypeAndHeap(C19_StatsOf(devices, device), C19_StatsOf(devices', device),
                         typeIndex)
  /\ UNCHANGED <<instance_dispatch, device_dispatch>>

-----------------------------------------------------------------------------
(* Handlers in steps.  Two threads call the layer at the same time; each   *)
(* handler is cut where the code takes and drops global_lock: the part     *)
(* before scoped_lock, the acquisition, the part under the lock up to the  *)
(* end of the lock_guard's scope, and (CreateDevice) the part after it.    *)
(* Thread 2 creates the instance; each thread then creates a device of its *)
(* own and uses it, so that the application keeps to the API's rules       *)
(* whatever the interleaving.                                              *)

\* the calls each thread makes, in order
Script(t) ==
  IF t = 1
  THEN << "CreateDevice", "AllocateMemory", "FreeMemory", "DestroyDevice" >>
  ELSE << "CreateInstance", "EnumerateDeviceExtensionProperties",
          "GetInstanceProcAddr", "CreateDevice", "GetDeviceProcAddr",
          "AllocateMemory", "FreeMemory", "DestroyDevice", "DestroyInstance" >>

\* the create calls come with the loader's chain or with none
StepChain(sType) == << LinkRecord(sType, 1) >>
StepChains(sType) == { <<>>, StepChain(sType) }

\* the request of the script's AllocateMemory
StepAllocateInfo == [allocationSize |-> 1, memoryTypeIndex |-> 0]

\* the instance thread 2 created, VK_NULL_HANDLE before it has and after it
\* has destroyed it
CreatedInstance ==
  IF liveInstances = {} THEN VK_NULL_HANDLE ELSE CHOOSE i \in liveInstances : TRUE

\* the handle a call of the script is made on: the instance, its physical
\* device, or the device the thread created; VK_NULL_HANDLE when the thread
\* has none, and then it does not make the call
StepHandle(t, op) ==
  IF op \in {"DestroyInstance", "GetInstanceProcAddr"} THEN CreatedInstance
  ELSE IF op \in {"CreateDevice", "EnumerateDeviceExtensionProperties"}
  THEN IF CreatedInstance = VK_NULL_HANDLE THEN VK_NULL_HANDLE
       ELSE 10 + CreatedInstance
  ELSE IF op = "FreeMemory"
  THEN IF held[t] = <<>> THEN VK_NULL_HANDLE ELSE held[t][Len(held[t])]
  ELSE run[t].device

\* the application's own ordering: thread 1 starts once the instance exists,
\* and the instance is destroyed last
StepAllowed(t, op) ==
  /\ (t = 1 /\ op = "CreateDevice") => CreatedInstance # VK_NULL_HANDLE
  /\ op = "DestroyInstance" =>
       \A u \in Threads \ {t} : pc[u] > Len(Script(u)) /\ run[u].at = "outside"

InitSteps ==
  /\ instance_dispatch = EmptyMap
  /\ device_dispatch = EmptyMap
  /\ devices = EmptyMap
  /\ allocations = EmptyMap
  /\ global_lock = 0
  /\ output = <<>>
  /\ crashed = FALSE
  /\ nextInstances = {}
  /\ nextDevices = EmptyMap
  /\ nextMemory = EmptyMap
  /\ liveInstances = {}
  /\ liveDevices = {}
  /\ misuse = FALSE
  /\ last = NoCall
  /\ pc = [t \in Threads |-> 1]
  /\ held = [t \in Threads |-> <<>>]
  /\ run = [t \in Threads |-> Outside]

\* return from the handler
StepReturn(t) ==
  /\ run' = [run EXCEPT ![t] = [Outside EXCEPT !.device = run[t].device]]
  /\ pc' = [pc EXCEPT ![t] = @ + 1]

\* a handler that goes on to the statements after scoped_lock without having
\* taken the lock
StepToLock_NoLock(t, op, handle) ==
  /\ run' = [run EXCEPT ![t] = [at |-> "critical", op |-> op, ret |-> "",
                                handle |-> handle, device |-> run[t].device]]
  /\ pc' = pc

\* the handler stands at its scoped_lock
StepToLock(t, op, handle) ==
  /\ run' = [run EXCEPT ![t] = [at |-> "lock", op |-> op, ret |-> "",
                                handle |-> handle, device |-> run[t].device]]
  /\ pc' = pc

\* The call is made and the handler runs up to its scoped_lock, or to a
\* return that comes before it.  Nothing here reads or writes the four maps.
StepEnter(t) ==
  LET op == Script(t)[pc[t]]
      handle == StepHandle(t, op)
  IN
  /\ ~crashed
  /\ run[t].at = "outside"
  /\ pc[t] <= Len(Script(t))
  /\ StepAllowed(t, op)
  /\ IF op = "CreateInstance"
     THEN \* lines 70-91: walk, early return, forwarded creation
          \E chain \in StepChains(InstanceSType) :
            IF FindLink(chain, InstanceSType) = 0
            THEN /\ CreateInstanceBody(chain, VK_SUCCESS, VK_NULL_HANDLE)
                 /\ StepReturn(t)
                 /\ UNCHANGED <<device_dispatch, devices, allocations, global_lock,
                                output, crashed, nextDevices, nextMemory, liveDevices,
                                misuse, held>>
            ELSE \E ret \in Results :
                   IF ret # VK_SUCCESS
                   THEN /\ CreateInstanceBody(chain, ret, VK_NULL_HANDLE)
                        /\ StepReturn(t)
                        /\ UNCHANGED <<device_dispatch, devices, allocations,
                                       global_lock, output, crashed, nextDevices,
                                       nextMemory, liveDevices, misuse, held>>
                   ELSE \E instance \in Instances \ nextInstances :
                          /\ nextInstances' = nextInstances \cup {instance}
                          /\ run' = [run EXCEPT ![t] =
                                       [at |-> "lock", op |-> op, ret |-> ret,
                                        handle |-> instance,
                                        device |-> run[t].device]]
                          /\ UNCHANGED <<layerVars, global_lock, output, crashed,
                                         nextDevices, nextMemory, liveInstances,
                                         liveDevices, misuse, last, pc, held>>
     ELSE IF handle = VK_NULL_HANDLE
     THEN \* nothing to call it on: the thread does not make the call
          /\ StepReturn(t)
          /\ UNCHANGED <<layerVars, global_lock, output, crashed, nextInstances,
                         nextDevices, nextMemory, liveInstances, liveDevices,
                         misuse, last, held>>
     ELSE IF op = "CreateDevice"
     THEN \* lines 124-155
          \E chain \in StepChains(DeviceSType) :
            IF FindLink(chain, DeviceSType) = 0
            THEN /\ CreateDeviceBody(handle, chain, VK_SUCCESS, VK_NULL_HANDLE, "stray")
                 /\ StepReturn(t)
                 /\ UNCHANGED <<instance_dispatch, allocations, global_lock, output,
                                nextInstances, nextMemory, liveInstances, misuse, held>>
            ELSE \E ret \in Results :
                   IF ret # VK_SUCCESS
                   THEN /\ CreateDeviceBody(handle, chain, ret, VK_NULL_HANDLE, "stray")
                        /\ StepReturn(t)
                        /\ UNCHANGED <<instance_dispatch, allocations, global_lock,
                                       output, nextInstances, nextMemory,
                                       liveInstances, misuse, held>>
                   ELSE \E device \in Devices \ DOMAIN nextDevices :
                          /\ nextDevices' = MapAssign(nextDevices, device, handle)
                          /\ run' = [run EXCEPT ![t] =
                                       [at |-> "lock", op |-> op, ret |-> ret,
                                        handle |-> device,
                                        device |-> run[t].device]]
                          /\ UNCHANGED <<layerVars, global_lock, output, crashed,
                                         nextInstances, nextMemory, liveInstances,
                                         liveDevices, misuse, last, pc, held>>
     ELSE IF op = "EnumerateDeviceExtensionProperties"
     THEN \* lines 290-295 and 301-303
          \E pLayerName \in {"NULL", LayerName} :
            IF pLayerName = LayerName
            THEN /\ EnumerateDeviceExtensionPropertiesBody(handle, pLayerName,
                                                           VK_SUCCESS)
                 /\ StepReturn(t)
                 /\ UNCHANGED <<device_dispatch, devices, allocations, global_lock,
                                output, nextInstances, nextDevices, nextMemory,
                                liveInstances, liveDevices, misuse, held>>
            ELSE /\ StepToLock(t, op, handle)
                 /\ UNCHANGED <<layerVars, global_lock, output, crashed,
                                nextInstances, nextDevices, nextMemory,
                                liveInstances, liveDevices, misuse, last, held>>
     ELSE IF op = "GetDeviceProcAddr"
     THEN \* lines 314-320
          \E pName \in {"vkFreeMemory", "vkCmdDraw"} :
            IF pName \in DeviceNames
            THEN /\ GetDeviceProcAddrBody(handle, pName, "NULL")
                 /\ StepReturn(t)
                 /\ UNCHANGED <<instance_dispatch, devices, allocations, global_lock,
                                output, nextInstances, nextDevices, nextMemory,
                                liveInstances, liveDevices, misuse, held>>
            ELSE /\ StepToLock(t, op, handle)
                 /\ UNCHANGED <<layerVars, global_lock, output, crashed,
                                nextInstances, nextDevices, nextMemory,
                                liveInstances, liveDevices, misuse, last, held>>
     ELSE IF op = "GetInstanceProcAddr"
     THEN \* lines 331-344
          \E pName \in {"vkCreateDevice", "vkCmdDraw"} :
            IF pName \in InstanceNames
            THEN /\ GetInstanceProcAddrBody(handle, pName, "NULL")
                 /\ StepReturn(t)
                 /\ UNCHANGED <<device_dispatch, devices, allocations, global_lock,
                                output, nextInstances, nextDevices, nextMemory,
                                liveInstances, liveDevices, misuse, held>>
            ELSE /\ StepToLock(t, op, handle)
                 /\ UNCHANGED <<layerVars, global_lock, output, crashed,
                                nextInstances, nextDevices, nextMemory,
                                liveInstances, liveDevices, misuse, last, held>>
     ELSE \* DestroyInstance, DestroyDevice, AllocateMemory, FreeMemory: the lock
          \* is the handler's first statement
          /\ StepToLock(t, op, handle)
          /\ UNCHANGED <<layerVars, global_lock, output, crashed, nextInstances,
                         nextDevices, nextMemory, liveInstances, liveDevices,
                         misuse, last, held>>

\* scoped_lock l(global_lock): std::mutex::lock blocks while the mutex is held
StepAcquire(t) ==
  /\ ~crashed
  /\ run[t].at = "lock"
  /\ global_lock = 0
  /\ global_lock' = t
  /\ run' = [run EXCEPT ![t].at = "critical"]
  /\ UNCHANGED <<layerVars, output, crashed, nextInstances, nextDevices, nextMemory,
                 liveInstances, liveDevices, misuse, last, pc, held>>

\* The statements between scoped_lock and the end of its scope, then the
\* lock_guard's destructor.  Every access to instance_dispatch,
\* device_dispatch, devices and allocations is in here.  A fault ends the
\* process where it stands: the lock stays held and the call does not return.
StepCritical(t) ==
  LET op == run[t].op
      handle == run[t].handle
  IN
  /\ ~crashed
  /\ run[t].at = "critical"
  /\ IF op = "CreateInstance"
     THEN \* lines 102-105
          /\ instance_dispatch' = MapAssign(instance_dispatch, GetKey(handle),
                                            InstanceTable(handle))
          /\ liveInstances' = liveInstances \cup {handle}
          /\ last' = Call("CreateInstance", handle, 0, NullAllocateInfo, "",
                          run[t].ret, FALSE,
                          << Forward("vkCreateInstance",
                                     NextResolver(StepChain(InstanceSType), 1),
                                     handle, run[t].ret) >>,
                          AdvanceLink(StepChain(InstanceSType), 1))
          /\ UNCHANGED <<device_dispatch, devices, allocations, output, crashed,
                         nextInstances, nextDevices, nextMemory, liveDevices,
                         misuse, held>>
     ELSE IF op = "CreateDevice"
     THEN \* lines 158-161
          /\ device_dispatch' = MapAssign(device_dispatch, GetKey(handle),
                                          DeviceTable(handle))
          /\ liveDevices' = liveDevices \cup {handle}
          /\ UNCHANGED <<instance_dispatch, devices, allocations, output, crashed,
                         nextInstances, nextDevices, nextMemory, liveInstances,
                         misuse, last, held>>
     ELSE IF op = "DestroyInstance"
     THEN /\ DestroyInstanceBody(handle)
          /\ UNCHANGED <<device_dispatch, devices, allocations, output, crashed,
                         nextInstances, nextDevices, nextMemory, liveDevices, held>>
     ELSE IF op = "DestroyDevice"
     THEN /\ DestroyDeviceBody(handle)
          /\ UNCHANGED <<instance_dispatch, allocations, crashed, nextInstances,
                         nextDevices, nextMemory, liveInstances, held>>
     ELSE IF op = "AllocateMemory"
     THEN /\ \E res \in Results :
               IF res = VK_SUCCESS
               THEN \E memory \in MemoryHandles \ DOMAIN nextMemory,
                       wild \in WildOutcomes :
                      /\ AllocateMemoryBody(handle, StepAllocateInfo, res, memory, wild)
                      /\ held' = [held EXCEPT ![t] = Append(@, memory)]
               ELSE /\ AllocateMemoryBody(handle, StepAllocateInfo, res,
                                          VK_NULL_HANDLE, "stray")
                    /\ held' = held
          /\ UNCHANGED <<instance_dispatch, output, nextInstances, nextDevices,
                         liveInstances, liveDevices, misuse>>
     ELSE IF op = "FreeMemory"
     THEN /\ \E wild \in WildOutcomes : FreeMemoryBody(run[t].device, handle, wild)
          /\ UNCHANGED <<instance_dispatch, output, nextInstances, nextDevices,
                         liveInstances, liveDevices, misuse, held>>
     ELSE IF op = "EnumerateDeviceExtensionProperties"
     THEN /\ \E res \in Results :
               EnumerateDeviceExtensionPropertiesBody(handle, "NULL", res)
          /\ UNCHANGED <<device_dispatch, devices, allocations, output, nextInstances,
                         nextDevices, nextMemory, liveInstances, liveDevices,
                         misuse, held>>
     ELSE IF op = "GetDeviceProcAddr"
     THEN /\ \E answer \in NextAnswers :
               GetDeviceProcAddrBody(handle, "vkCmdDraw", answer)
          /\ UNCHANGED <<instance_dispatch, devices, allocations, output,
                         nextInstances, nextDevices, nextMemory, liveInstances,
                         liveDevices, misuse, held>>
     ELSE /\ op = "GetInstanceProcAddr"
          /\ \E answer \in NextAnswers :
               GetInstanceProcAddrBody(handle, "vkCmdDraw", answer)
          /\ UNCHANGED <<device_dispatch, devices, allocations, output, nextInstances,
                         nextDevices, nextMemory, liveInstances, liveDevices,
                         misuse, held>>
  /\ global_lock' = IF crashed' THEN global_lock ELSE 0
  /\ IF crashed'
     THEN UNCHANGED <<pc, run>>
     ELSE IF op = "CreateDevice"
     THEN /\ run' = [run EXCEPT ![t].at = "tail", ![t].device = handle]
          /\ pc' = pc
     ELSE IF op = "DestroyDevice"
     THEN /\ run' = [run EXCEPT ![t] = Outside]
          /\ pc' = [pc EXCEPT ![t] = @ + 1]
     ELSE StepReturn(t)

\* MemoryTrack_CreateDevice after the lock_guard's scope, lines 163-177: the
\* loop bounds are read from the uninitialised memoryProperties
StepTail(t) ==
  LET handle == run[t].handle IN
  /\ ~crashed
  /\ run[t].at = "tail"
  /\ \E wild \in WildOutcomes :
       /\ crashed' = (wild = "fault")
       /\ last' = Call("CreateDevice", handle, 0, NullAllocateInfo, "",
                       run[t].ret, wild = "fault",
                       << Forward("vkCreateDevice",
                                  NextResolver(StepChain(DeviceSType), 1),
                                  handle, run[t].ret) >>,
                       AdvanceLink(StepChain(DeviceSType), 1))
       /\ IF wild = "fault" THEN UNCHANGED <<pc, run>> ELSE StepReturn(t)
  /\ UNCHANGED <<layerVars, global_lock, output, nextInstances, nextDevices,
                 nextMemory, liveInstances, liveDevices, misuse, held>>

NextSteps ==
  \E t \in Threads :
    \/ StepEnter(t)
    \/ StepAcquire(t)
    \/ StepCritical(t)
    \/ StepTail(t)

SpecSteps == InitSteps /\ [][NextSteps]_vars

(* C13: every read and write of instance_dispatch, device_dispatch,        *)
(* devices and allocations happens while the thread doing it holds         *)
(* global_lock; at most one thread holds the lock at a time; and each      *)
(* operation does its lookup and its mutation in one hold of the lock: it  *)
(* takes the lock once, and only the holder, inside that hold, changes the *)
(* maps, so no update of one thread is lost to another.                    *)
C13_AtMaps(t) == run[t].at = "critical"

C13_AllAccessUnderLock ==
  /\ [] ( \A t \in Threads : C13_AtMaps(t) => global_lock = t )
  /\ [][ /\ layerVars' # layerVars
            => /\ global_lock \in Threads
               /\ C13_AtMaps(global_lock)
               /\ \A u \in Threads \ {global_lock} : run'[u] = run[u]
         /\ \A t \in Threads :
              \* one hold per operation: the lock is taken from the handler's
              \* scoped_lock only, and the handler is never back at it
              /\ (global_lock # t /\ global_lock' = t) => run[t].at = "lock"
              /\ (run[t].at # "lock" /\ run'[t].at = "lock") => run[t].at = "outside"
              /\ (global_lock = t /\ global_lock' # t)
                   => run'[t].at \in {"outside", "tail"}
       ]_vars

C13_Witness ==
  /\ global_lock = 1
  /\ run[1].at = "critical" /\ run[1].op = "FreeMemory"
  /\ run[2].at = "lock" /\ run[2].op = "AllocateMemory"
  /\ Cardinality(DOMAIN device_dispatch) = 2

(* C16: with threads scheduled fairly and a next link that always returns, *)
(* every operation that is invoked returns: no handler takes global_lock   *)
(* while holding it, every path that takes it releases it, and the         *)
(* forwarded call returns, so no thread waits for ever.  In finite form:   *)
(* as long as a thread has a call to make or is inside one, some thread    *)
(* can take a step.                                                        *)
C16_EveryOperationReturns ==
  (\E t \in Threads : ~ThreadDone(t)) => ENABLED NextThreads

(* C20: the next link may hand a memory handle out again as soon as the    *)
(* FreeMemory of it has run.  Whatever the interleaving of two threads     *)
(* that allocate and free, no free removes and no allocate overwrites the  *)
(* record of another thread's live allocation: whenever no layer operation *)
(* is in progress, the handles with a record are the handles live in the   *)
(* next link, each thread's live handles among them with the request that  *)
(* made them, and no handle is live for two threads.                       *)
C20_FreedSlots(t) ==
  {Program(t)[j].slot : j \in {k \in 1 .. Len(Program(t)) :
                                 k < pc[t] /\ Program(t)[k].op = "free"}}

\* the handles thread t got back and has not freed
C20_Owned(t) == {held[t][i] : i \in (1 .. Len(held[t])) \ C20_FreedSlots(t)}

C20_NoRecordLostToReuse ==
  global_lock = 0 =>
    /\ DOMAIN allocations = DOMAIN nextMemory
    /\ DOMAIN allocations = UNION {C20_Owned(t) : t \in Threads}
    /\ \A t, u \in Threads : t # u => C20_Owned(t) \cap C20_Owned(u) = {}
    /\ \A m \in DOMAIN allocations : allocations[m] = nextMemory[m].info

C20_Witness ==
  /\ global_lock = 0
  /\ pc[1] >= 3
  /\ held[1][1] \in C20_Owned(2)
  /\ held[1][1] \in DOMAIN allocations
  /\ Len(held[2]) = 2
  /\ C20_Owned(1) # {}

=============================================================================
